---- MODULE Spec2Model ----
(***************************************************************************)
(* Model of the pistol-duel authoritative servers.                         *)
(*                                                                         *)
(*   src/server.js        the rematch variant  (gameOver / winner /        *)
(*                        rematchReady, speed clamps)                      *)
(*   src/unnamed/part_000 the countdown variant (create / join, started /  *)
(*                        startAt, heat)                                   *)
(*                                                                         *)
(* Numbers are fixed-point: lengths and velocities in 1/1000 px, angles    *)
(* and angular velocities in 1/1000 rad, factors in 1/1000, heat in 1/100, *)
(* time in ms.  Products are truncated toward zero.  Math.random() is a    *)
(* choice from a small set.                                                *)
(*                                                                         *)
(* Specifications:                                                         *)
(*   Spec        server.js, at most MaxShots shots per room                *)
(*   SpecDuel    server.js, one shot more (an exchange of shots)           *)
(*   CdSpec      part_000, at most CdMaxShots shots per room               *)
(*   CdDuelSpec  part_000, one shot more                                   *)
(*   CdFairSpec  CdSpec with the loop and the clock weakly fair            *)
(*   HeatSpec    part_000, a burst of HeatShots shots, HeatTicks ticks     *)
(*   HitSpec     both loops on projectiles drawn around the bodies         *)
(*   UpdateSpec  server.js, Gun.update on bodies drawn from a grid         *)
(*   LobbySpec   server.js, three connections, the room "undefined" and    *)
(*               malformed messages, from the tick before a hit            *)
(***************************************************************************)
EXTENDS Integers, Sequences, FiniteSets, TLC

----------------------------------------------------------------------------
(* Bounds of the model *)

\* physics ticks simulated per room (server.js)
MaxTicks == 30
\* physics ticks simulated per room (part_000)
CdMaxTicks == 23
\* shoot messages accepted per room (server.js); one more in the duel specification
MaxShots == 1
\* shoot messages accepted per room (part_000); one more in the duel specification
CdMaxShots == 0
\* the clock reading up to which join messages are drawn (ms)
MaxNow == 1000
\* shoot messages accepted per room in the heat specification (part_000)
HeatShots == 7
\* physics ticks simulated per room in the heat specification (part_000)
HeatTicks == 2
\* the clock reading up to which time passes in the heat specification (ms)
HeatMaxNow == 13000
\* physics ticks simulated per room in the hit-test specification
HitTicks == 1
\* physics ticks simulated per room in the Gun.update specification
UpdateTicks == 2
\* shoot messages accepted per room in the lobby specification (server.js)
LobbyShots == 1
\* physics ticks simulated per room in the lobby specification (server.js)
LobbyTicks == 1

----------------------------------------------------------------------------
(* Input sets *)

\* the connections of the part_000 server, and those of the server.js server
Conns == {"c1", "c2", "c3"}
Players == {"c1", "c2"}
RoomIds == {"r1"}
Slots == {"blue", "white"}
\* undefined / null
None == "none"
\* the property names of server.js `rooms`: the room ids, and "undefined", the
\* name that rooms[ws.room] reads for a connection whose ws.room is not set
RoomKeys == RoomIds \cup {None}

\* Math.random() * Math.PI * 2, drawn from: facing right, facing left
AngleSet == {0, 3142}
\* (Math.random() - 0.5) * 0.06, drawn from: the low end of its range (Math.random() = 0)
JitterSet == {-30}

----------------------------------------------------------------------------
(* Fixed-point arithmetic *)

Abs(n) == IF n < 0 THEN -n ELSE n

\* a * k / 1000, truncated toward zero
Scale(a, k) == IF a * k >= 0 THEN (a * k) \div 1000 ELSE -((-(a * k)) \div 1000)

\* a * n / d, truncated toward zero
MulDiv(a, n, d) == IF a * n >= 0 THEN (a * n) \div d ELSE -((-(a * n)) \div d)

RECURSIVE SqrtBetween(_, _, _)
SqrtBetween(n, lo, hi) ==
  IF hi - lo <= 1 THEN lo
  ELSE LET mid == (lo + hi) \div 2
       IN  IF mid * mid <= n THEN SqrtBetween(n, mid, hi) ELSE SqrtBetween(n, lo, mid)

\* floor of the square root, for 0 <= n < 46340^2
ISqrt(n) == SqrtBetween(n, 0, 46340)

\* Math.hypot
Hypot(a, b) == ISqrt(a * a + b * b)

PI_MILLI == 3142
TWO_PI_MILLI == 6283

\* 1000 * sin(x / 1000) for 0 <= x <= PI_MILLI (Bhaskara's formula, exact at 0, pi/2, pi)
SinHalf(x) ==
  LET p   == x * (PI_MILLI - x)
      den == 5 * PI_MILLI * PI_MILLI - 4 * p
      s   == (16 * p) \div (den \div 1000)
  IN  IF s > 1000 THEN 1000 ELSE s

\* Math.sin, Math.cos
Sin(a) ==
  LET m == a % TWO_PI_MILLI
  IN  IF m <= PI_MILLI THEN SinHalf(m) ELSE -SinHalf(m - PI_MILLI)

Cos(a) == Sin(a + 1571)

----------------------------------------------------------------------------
(* src/server.js: constants *)

GRAVITY == 20
RECOIL_FORCE == 3200
BULLET_SPEED == 9
MUZZLE == 32
WALL_RESTITUTION == 850
ANGULAR_TRANSFER == 15
ROTATION_DAMPING == 992
LINEAR_DAMPING == 998
MAX_SPEED == 7500
MAX_ANGULAR_SPEED == 220
WIDTH == 420000
HEIGHT == 640000
RADIUS == 20000
HITBOX == 20000
SPAWN_X == 90000
SPAWN_DY == 120000

----------------------------------------------------------------------------
(* src/server.js: Gun *)

\* new Gun(x, y); id stands for the identity of the object
Gun(x, y, angle, id) ==
  [x |-> x, y |-> y, vx |-> 0, vy |-> 0, angle |-> angle, av |-> 0, id |-> id]

\* the projectile Gun.shoot pushes
Bullet(g) ==
  [x |-> g.x + Cos(g.angle) * MUZZLE,
   y |-> g.y + Sin(g.angle) * MUZZLE,
   vx |-> Cos(g.angle) * BULLET_SPEED,
   vy |-> Sin(g.angle) * BULLET_SPEED,
   owner |-> g.id]

\* the body after Gun.shoot: recoil and the random angular kick
Recoil(g, jitter) ==
  [g EXCEPT !.vx = g.vx - Scale(Cos(g.angle), RECOIL_FORCE),
            !.vy = g.vy - Scale(Sin(g.angle), RECOIL_FORCE),
            !.av = g.av - jitter]

applyWallCollision(g, nx, ny) ==
  LET dot == g.vx * nx + g.vy * ny
  IN  IF dot < 0
      THEN [g EXCEPT !.vx = Scale(g.vx - 2 * dot * nx, WALL_RESTITUTION),
                     !.vy = Scale(g.vy - 2 * dot * ny, WALL_RESTITUTION),
                     !.av = g.av + Scale(dot, ANGULAR_TRANSFER)]
      ELSE g

\* gravity, integration and damping
Integrate(g, gravity) ==
  LET vy1 == g.vy + gravity
  IN  [g EXCEPT !.x = g.x + g.vx,
                !.y = g.y + vy1,
                !.angle = g.angle + g.av,
                !.vx = Scale(g.vx, LINEAR_DAMPING),
                !.vy = Scale(vy1, LINEAR_DAMPING),
                !.av = Scale(g.av, ROTATION_DAMPING)]

ClampLinear(g) ==
  LET speed == Hypot(g.vx, g.vy)
  IN  IF speed > MAX_SPEED
      THEN [g EXCEPT !.vx = MulDiv(g.vx, MAX_SPEED, speed),
                     !.vy = MulDiv(g.vy, MAX_SPEED, speed)]
      ELSE g

ClampAngular(g) ==
  LET g1 == IF g.av > MAX_ANGULAR_SPEED THEN [g EXCEPT !.av = MAX_ANGULAR_SPEED] ELSE g
  IN  IF g1.av < -MAX_ANGULAR_SPEED THEN [g1 EXCEPT !.av = -MAX_ANGULAR_SPEED] ELSE g1

\* the four wall tests, in the order of the code
Walls(g, width, height) ==
  LET g1 == IF g.x - RADIUS < 0
            THEN applyWallCollision([g EXCEPT !.x = RADIUS], 1, 0) ELSE g
      g2 == IF g1.x + RADIUS > width
            THEN applyWallCollision([g1 EXCEPT !.x = width - RADIUS], -1, 0) ELSE g1
      g3 == IF g2.y - RADIUS < 0
            THEN applyWallCollision([g2 EXCEPT !.y = RADIUS], 0, 1) ELSE g2
  IN  IF g3.y + RADIUS > height
      THEN applyWallCollision([g3 EXCEPT !.y = height - RADIUS], 0, -1) ELSE g3

\* Gun.update
update(g) == Walls(ClampAngular(ClampLinear(Integrate(g, GRAVITY))), WIDTH, HEIGHT)

hit(b, g) == Abs(b.x - g.x) < HITBOX /\ Abs(b.y - g.y) < HITBOX

OutOfBounds(b, width, height) == b.x < 0 \/ b.x > width \/ b.y < 0 \/ b.y > height

----------------------------------------------------------------------------
(* src/server.js: state *)

VARIABLES
  rooms,    \* server.js `rooms`: room id -> room, or NoRoom
  ws,       \* server.js: connection -> its session mapping (ws.room, ws.player)
  up,       \* server.js: the process is running (no uncaught exception so far)
  cdRooms,  \* part_000 `rooms`
  cdWs,     \* part_000: connection -> (ws.room, ws.player)
  now       \* part_000: Date.now(), ms since the server started

vars == <<rooms, ws, up, cdRooms, cdWs, now>>
serverVars == <<rooms, ws, up>>
cdVars == <<cdRooms, cdWs, now>>

NoRoom == [absent |-> TRUE]
NoSession == [room |-> None, player |-> None]

Other(slot) == IF slot = "blue" THEN "white" ELSE "blue"

\* createRoom(); gen counts the resets (the Gun objects' generation), age the
\* simulated ticks and shots the accepted shoot messages; rematchReady[None] is
\* the property rematchReady["undefined"], false while it is not there
createRoom(ab, aw) ==
  [players |-> [blue  |-> Gun(SPAWN_X, HEIGHT - SPAWN_DY, ab, [slot |-> "blue", gen |-> 0]),
                white |-> Gun(WIDTH - SPAWN_X, HEIGHT - SPAWN_DY, aw, [slot |-> "white", gen |-> 0])],
   bullets |-> <<>>,
   clients |-> [blue |-> None, white |-> None],
   gameOver |-> FALSE,
   winner |-> None,
   rematchReady |-> [k \in Slots \cup {None} |-> FALSE],
   gen |-> 0, age |-> 0, shots |-> 0]

\* resetRoom without `room.bullets = []`
resetRoom_keepBullets(room, ab, aw) ==
  [room EXCEPT
     !.players = [blue  |-> Gun(SPAWN_X, HEIGHT - SPAWN_DY, ab,
                                [slot |-> "blue", gen |-> room.gen + 1]),
                  white |-> Gun(WIDTH - SPAWN_X, HEIGHT - SPAWN_DY, aw,
                                [slot |-> "white", gen |-> room.gen + 1])],
     !.gameOver = FALSE,
     !.winner = None,
     !.rematchReady = [room.rematchReady EXCEPT !.blue = FALSE, !.white = FALSE],
     !.gen = room.gen + 1]

resetRoom(room, ab, aw) ==
  [room EXCEPT
     !.players = [blue  |-> Gun(SPAWN_X, HEIGHT - SPAWN_DY, ab,
                                [slot |-> "blue", gen |-> room.gen + 1]),
                  white |-> Gun(WIDTH - SPAWN_X, HEIGHT - SPAWN_DY, aw,
                                [slot |-> "white", gen |-> room.gen + 1])],
     !.bullets = <<>>,
     !.gameOver = FALSE,
     !.winner = None,
     !.rematchReady = [room.rematchReady EXCEPT !.blue = FALSE, !.white = FALSE],
     !.gen = room.gen + 1]

\* Object.keys(room.clients).length
ClientCount(room) == Cardinality({s \in Slots : room.clients[s] # None})

\* rooms[ws.room]; an unset ws.room reads the property "undefined"
RoomOf(c) == rooms[ws[c].room]

RemoveAt(seq, i) == [k \in 1..(Len(seq) - 1) |-> IF k < i THEN seq[k] ELSE seq[k + 1]]

----------------------------------------------------------------------------
(* src/server.js: message handlers *)

Init ==
  /\ rooms = [r \in RoomKeys |-> NoRoom]
  /\ ws = [c \in Conns |-> NoSession]
  /\ up = TRUE
  /\ cdRooms = [r \in RoomIds |-> NoRoom]
  /\ cdWs = [c \in Conns |-> NoSession]
  /\ now = 0

\* rooms[data.room] after `if (!rooms[data.room]) rooms[data.room] = createRoom()`:
\* the room, or a new one for each draw of the two random angles
Resolve(r) ==
  IF rooms[r] = NoRoom
  THEN {createRoom(ab, aw) : ab \in AngleSet, aw \in AngleSet}
  ELSE {rooms[r]}

\* data.type === "join"
Join(c, r) ==
  /\ up
  /\ \E room \in Resolve(r) :
       LET player == IF room.clients.blue # None THEN "white" ELSE "blue"
       IN  IF ClientCount(room) >= 2
           THEN /\ rooms' = [rooms EXCEPT ![r] = room]
                /\ UNCHANGED <<ws, up, cdVars>>
           ELSE /\ rooms' = [rooms EXCEPT ![r] = [room EXCEPT !.clients[player] = c]]
                /\ ws' = [ws EXCEPT ![c] = [room |-> r, player |-> player]]
                /\ UNCHANGED <<up, cdVars>>

\* the frames the join handler sends: "joined" to the sender, unless the room
\* is full
JoinReply(c, r) ==
  IF rooms[r] # NoRoom /\ ClientCount(rooms[r]) >= 2
  THEN {}
  ELSE {[to |-> c, type |-> "joined",
         player |-> IF rooms[r] # NoRoom /\ rooms[r].clients.blue # None
                    THEN "white" ELSE "blue"]}

\* Gun.shoot on the sender's body
shoot(room, player, jitter) ==
  [room EXCEPT !.bullets = Append(room.bullets, Bullet(room.players[player])),
               !.players[player] = Recoil(room.players[player], jitter),
               !.shots = room.shots + 1]

\* ShootUpTo with one projectile list for all rooms: the projectile enters
\* every running room
ShootUpTo_oneList(c, cap) ==
  LET room == RoomOf(c)
  IN  /\ up
      /\ IF room = NoRoom \/ room.gameOver
         THEN UNCHANGED <<rooms, up>>
         ELSE IF ws[c].player = None
         THEN up' = FALSE /\ UNCHANGED rooms
         ELSE /\ room.shots < cap
              /\ \E jitter \in JitterSet :
                   rooms' = [q \in RoomKeys |->
                               IF q = ws[c].room THEN shoot(room, ws[c].player, jitter)
                               ELSE IF rooms[q] = NoRoom \/ rooms[q].gameOver THEN rooms[q]
                               ELSE [rooms[q] EXCEPT !.bullets =
                                       Append(@, Bullet(room.players[ws[c].player]))]]
              /\ UNCHANGED up
      /\ UNCHANGED <<ws, cdVars>>

\* data.type === "shoot", while the room has accepted fewer than cap shots;
\* with ws.player not set, room.players[ws.player] is undefined and the call
\* of its shoot throws a TypeError that nothing catches
ShootUpTo(c, cap) ==
  LET room == RoomOf(c)
  IN  /\ up
      /\ IF room = NoRoom \/ room.gameOver
         THEN UNCHANGED <<rooms, up>>
         ELSE IF ws[c].player = None
         THEN up' = FALSE /\ UNCHANGED rooms
         ELSE /\ room.shots < cap
              /\ \E jitter \in JitterSet :
                   rooms' = [rooms EXCEPT ![ws[c].room] = shoot(room, ws[c].player, jitter)]
              /\ UNCHANGED up
      /\ UNCHANGED <<ws, cdVars>>

Shoot(c) == ShootUpTo(c, MaxShots)

DuelShoot(c) == ShootUpTo(c, MaxShots + 1)

LobbyShoot(c) == ShootUpTo(c, LobbyShots)

\* Readied with `||` for `&&`: the first ready flag resets the room
Readied_either(room, player) ==
  LET ready == [room EXCEPT !.rematchReady[player] = TRUE]
  IN  IF ready.rematchReady.blue \/ ready.rematchReady.white
      THEN {resetRoom(ready, ab, aw) : ab \in AngleSet, aw \in AngleSet}
      ELSE {ready}

\* the room after `room.rematchReady[ws.player] = true` and the reset that follows
\* when both flags are set, for each draw of the two random angles
Readied(room, player) ==
  LET ready == [room EXCEPT !.rematchReady[player] = TRUE]
  IN  IF ready.rematchReady.blue /\ ready.rematchReady.white
      THEN {resetRoom(ready, ab, aw) : ab \in AngleSet, aw \in AngleSet}
      ELSE {ready}

\* data.type === "rematch"
Rematch(c) ==
  LET room == RoomOf(c)
  IN  /\ up
      /\ IF room = NoRoom \/ ~room.gameOver
         THEN rooms' = rooms
         ELSE \E after \in Readied(room, ws[c].player) :
                rooms' = [rooms EXCEPT ![ws[c].room] = after]
      /\ UNCHANGED <<ws, up, cdVars>>

\* a message that JSON.parse rejects: the SyntaxError is thrown out of the
\* message listener, nothing catches it, and the process exits
Malformed(c) ==
  /\ up
  /\ up' = FALSE
  /\ UNCHANGED <<rooms, ws, cdVars>>

----------------------------------------------------------------------------
(* src/server.js: main loop *)

\* BulletStep with the two winners swapped: the hit slot wins
BulletStep_hitSlotWins(room, i) ==
  LET b0 == room.bullets[i + 1]
      b  == [b0 EXCEPT !.x = b0.x + b0.vx, !.y = b0.y + b0.vy]
      r1 == [room EXCEPT !.bullets[i + 1] = b]
      r2 == IF b.owner # r1.players.blue.id /\ hit(b, r1.players.blue)
            THEN [r1 EXCEPT !.gameOver = TRUE, !.winner = "blue"] ELSE r1
      r3 == IF b.owner # r2.players.white.id /\ hit(b, r2.players.white)
            THEN [r2 EXCEPT !.gameOver = TRUE, !.winner = "white"] ELSE r2
  IN  IF OutOfBounds(b, WIDTH, HEIGHT)
      THEN [r3 EXCEPT !.bullets = RemoveAt(r3.bullets, i + 1)] ELSE r3

\* BulletStep without the comparison of b.owner with the body
BulletStep_noOwner(room, i) ==
  LET b0 == room.bullets[i + 1]
      b  == [b0 EXCEPT !.x = b0.x + b0.vx, !.y = b0.y + b0.vy]
      r1 == [room EXCEPT !.bullets[i + 1] = b]
      r2 == IF hit(b, r1.players.blue)
            THEN [r1 EXCEPT !.gameOver = TRUE, !.winner = "white"] ELSE r1
      r3 == IF hit(b, r2.players.white)
            THEN [r2 EXCEPT !.gameOver = TRUE, !.winner = "blue"] ELSE r2
  IN  IF OutOfBounds(b, WIDTH, HEIGHT)
      THEN [r3 EXCEPT !.bullets = RemoveAt(r3.bullets, i + 1)] ELSE r3

\* the callback of room.bullets.forEach for the element at index i (0-based)
BulletStep(room, i) ==
  LET b0 == room.bullets[i + 1]
      b  == [b0 EXCEPT !.x = b0.x + b0.vx, !.y = b0.y + b0.vy]
      r1 == [room EXCEPT !.bullets[i + 1] = b]
      r2 == IF b.owner # r1.players.blue.id /\ hit(b, r1.players.blue)
            THEN [r1 EXCEPT !.gameOver = TRUE, !.winner = "white"] ELSE r1
      r3 == IF b.owner # r2.players.white.id /\ hit(b, r2.players.white)
            THEN [r2 EXCEPT !.gameOver = TRUE, !.winner = "blue"] ELSE r2
  IN  IF OutOfBounds(b, WIDTH, HEIGHT)
      THEN [r3 EXCEPT !.bullets = RemoveAt(r3.bullets, i + 1)] ELSE r3

\* Array.prototype.forEach over room.bullets: indices 0..n-1 of the length at the
\* start, an index is visited only while the array still holds it
RECURSIVE BulletLoop(_, _, _)
BulletLoop(room, i, n) ==
  IF i >= n THEN room
  ELSE IF i >= Len(room.bullets) THEN BulletLoop(room, i + 1, n)
  ELSE BulletLoop(BulletStep(room, i), i + 1, n)

\* the body of Object.values(rooms).forEach for one room
TickRoom(room) ==
  IF room.gameOver THEN room
  ELSE LET moved == [room EXCEPT !.players.blue = update(room.players.blue),
                                 !.players.white = update(room.players.white),
                                 !.age = room.age + 1]
       IN  BulletLoop(moved, 0, Len(moved.bullets))

\* one firing of the setInterval callback, while no running room has been
\* simulated for cap ticks
TickUpTo(cap) ==
  /\ up
  /\ \A r \in RoomKeys : rooms[r] # NoRoom /\ ~rooms[r].gameOver => rooms[r].age < cap
  /\ rooms' = [r \in RoomKeys |-> IF rooms[r] = NoRoom THEN NoRoom ELSE TickRoom(rooms[r])]
  /\ UNCHANGED <<ws, up, cdVars>>

Tick == TickUpTo(MaxTicks)

HitTick == TickUpTo(HitTicks)

UpdateTick == TickUpTo(UpdateTicks)

LobbyTick == TickUpTo(LobbyTicks)

----------------------------------------------------------------------------
(* src/unnamed/part_000: constants *)

HEAT_PER_SHOT == 100
MAX_HEAT == 600
COOL_RATE == 4
OVERHEAT_COOLDOWN == 10000
COUNTDOWN == 3000
CD_HEIGHT == 800000
CD_SPAWN_DY == 160000

\* MAPS[key].gravity
MapKeys == {"zeroG", "heavy"}
MapGravity(key) == CASE key = "zeroG" -> 0 [] key = "moon" -> 20 [] key = "heavy" -> 50

\* the time that passes between two readings of Date.now() (ms)
ClockSteps == {1000}

----------------------------------------------------------------------------
(* src/unnamed/part_000: Gun *)

CdGun(x, y, angle) ==
  [x |-> x, y |-> y, vx |-> 0, vy |-> 0, angle |-> angle, av |-> 0,
   heat |-> 0, overheated |-> FALSE, overheatUntil |-> 0]

\* Gun.canShoot at time t: the body after the call, the overheat flag cleared
\* when the cooldown has passed
AfterCanShoot(g, t) ==
  IF g.overheated /\ t >= g.overheatUntil
  THEN [g EXCEPT !.overheated = FALSE, !.heat = (MAX_HEAT * 4) \div 10]
  ELSE g

\* canShoot without the overheat lock
canShoot_noLock(g, t) == TRUE

\* the value Gun.canShoot returns at time t
canShoot(g, t) == ~g.overheated \/ t >= g.overheatUntil

CdBullet(g, owner) ==
  [x |-> g.x + Cos(g.angle) * MUZZLE,
   y |-> g.y + Sin(g.angle) * MUZZLE,
   vx |-> Cos(g.angle) * BULLET_SPEED,
   vy |-> Sin(g.angle) * BULLET_SPEED,
   owner |-> owner]

\* the body after an accepted Gun.shoot at time t
CdFired(g, jitter, t) ==
  LET g1   == Recoil(AfterCanShoot(g, t), jitter)
      heat == g1.heat + HEAT_PER_SHOT
  IN  IF heat >= MAX_HEAT
      THEN [g1 EXCEPT !.heat = heat, !.overheated = TRUE,
                      !.overheatUntil = t + OVERHEAT_COOLDOWN]
      ELSE [g1 EXCEPT !.heat = heat]

\* the heat decay of Gun.update
Cool(g) ==
  IF ~g.overheated /\ g.heat > 0
  THEN [g EXCEPT !.heat = IF g.heat - COOL_RATE > 0 THEN g.heat - COOL_RATE ELSE 0]
  ELSE g

\* Gun.update(g)
CdUpdate(g, gravity) == Walls(Cool(Integrate(g, gravity)), WIDTH, CD_HEIGHT)

----------------------------------------------------------------------------
(* src/unnamed/part_000: rooms and message handlers *)

\* createRoom(mapKey); age counts the simulated ticks, shots the accepted shoot messages
cdCreateRoom(mapKey, ab, aw) ==
  [map |-> mapKey,
   players |-> [blue  |-> CdGun(SPAWN_X, CD_HEIGHT - CD_SPAWN_DY, ab),
                white |-> CdGun(WIDTH - SPAWN_X, CD_HEIGHT - CD_SPAWN_DY, aw)],
   bullets |-> <<>>,
   clients |-> [blue |-> None, white |-> None],
   started |-> FALSE,
   startAt |-> 0,
   age |-> 0, shots |-> 0]

CdRoomOf(c) == IF cdWs[c].room = None THEN NoRoom ELSE cdRooms[cdWs[c].room]

\* d.type === "create"
CdCreate(c, r) ==
  \E mapKey \in MapKeys, ab \in AngleSet, aw \in AngleSet :
    /\ cdRooms' = [cdRooms EXCEPT ![r] =
                     [cdCreateRoom(mapKey, ab, aw) EXCEPT !.clients.blue = c]]
    /\ cdWs' = [cdWs EXCEPT ![c] = [room |-> r, player |-> "blue"]]
    /\ UNCHANGED <<now, serverVars>>

\* d.type === "join"
CdJoin(c, r) ==
  LET room == cdRooms[r]
  IN  IF room = NoRoom \/ room.clients.white # None
      THEN UNCHANGED vars
      ELSE /\ now <= MaxNow
           /\ cdRooms' = [cdRooms EXCEPT ![r] =
                            [room EXCEPT !.clients.white = c,
                                         !.started = FALSE,
                                         !.startAt = now + COUNTDOWN]]
           /\ cdWs' = [cdWs EXCEPT ![c] = [room |-> r, player |-> "white"]]
           /\ UNCHANGED <<now, serverVars>>

\* Gun.shoot(bullets, owner) on the sender's body at time t
cdShoot(room, player, jitter, t) ==
  IF canShoot(room.players[player], t)
  THEN [room EXCEPT !.bullets = Append(room.bullets, CdBullet(room.players[player], player)),
                    !.players[player] = CdFired(room.players[player], jitter, t),
                    !.shots = room.shots + 1]
  ELSE room

\* d.type === "shoot", while the room has accepted fewer than cap shots
CdShootUpTo(c, cap) ==
  LET room == CdRoomOf(c)
  IN  /\ IF room = NoRoom \/ ~room.started
         THEN cdRooms' = cdRooms
         ELSE /\ room.shots < cap
              /\ \E jitter \in JitterSet :
                   cdRooms' = [cdRooms EXCEPT ![cdWs[c].room] =
                                 cdShoot(room, cdWs[c].player, jitter, now)]
      /\ UNCHANGED <<cdWs, now, serverVars>>

CdShoot(c) == CdShootUpTo(c, CdMaxShots)

CdDuelShoot(c) == CdShootUpTo(c, CdMaxShots + 1)

HeatShoot(c) == CdShootUpTo(c, HeatShots)

----------------------------------------------------------------------------
(* src/unnamed/part_000: loop *)

CdBulletStep(room, i) ==
  LET b0 == room.bullets[i + 1]
      b  == [b0 EXCEPT !.x = b0.x + b0.vx, !.y = b0.y + b0.vy]
      r1 == [room EXCEPT !.bullets[i + 1] = b]
      r2 == IF b.owner # "blue" /\ hit(b, r1.players.blue)
            THEN [r1 EXCEPT !.started = FALSE] ELSE r1
      r3 == IF b.owner # "white" /\ hit(b, r2.players.white)
            THEN [r2 EXCEPT !.started = FALSE] ELSE r2
  IN  IF OutOfBounds(b, WIDTH, CD_HEIGHT)
      THEN [r3 EXCEPT !.bullets = RemoveAt(r3.bullets, i + 1)] ELSE r3

RECURSIVE CdBulletLoop(_, _, _)
CdBulletLoop(room, i, n) ==
  IF i >= n THEN room
  ELSE IF i >= Len(room.bullets) THEN CdBulletLoop(room, i + 1, n)
  ELSE CdBulletLoop(CdBulletStep(room, i), i + 1, n)

\* Expire without the comparison of the clock with the deadline
Expire_noDeadline(room, t) ==
  IF ~room.started /\ room.startAt # 0
  THEN [room EXCEPT !.started = TRUE] ELSE room

\* `if (!r.started && r.startAt && Date.now() >= r.startAt) r.started = true`
Expire(room, t) ==
  IF ~room.started /\ room.startAt # 0 /\ t >= room.startAt
  THEN [room EXCEPT !.started = TRUE] ELSE room

\* the body of Object.values(rooms).forEach for one room at time t
CdTickRoom(room, t) ==
  LET r1 == Expire(room, t)
  IN  IF r1.started
      THEN LET moved == [r1 EXCEPT
                           !.players.blue = CdUpdate(r1.players.blue, MapGravity(r1.map)),
                           !.players.white = CdUpdate(r1.players.white, MapGravity(r1.map)),
                           !.age = r1.age + 1]
           IN  CdBulletLoop(moved, 0, Len(moved.bullets))
      ELSE r1

\* one firing of the setInterval callback, while no running room has been
\* simulated for cap ticks
CdTickUpTo(cap) ==
  /\ \A r \in RoomIds :
       cdRooms[r] # NoRoom /\ Expire(cdRooms[r], now).started => cdRooms[r].age < cap
  /\ cdRooms' = [r \in RoomIds |->
                   IF cdRooms[r] = NoRoom THEN NoRoom ELSE CdTickRoom(cdRooms[r], now)]
  /\ UNCHANGED <<cdWs, now, serverVars>>

CdTick == CdTickUpTo(CdMaxTicks)

HeatTick == CdTickUpTo(HeatTicks)

CdHitTick == CdTickUpTo(HitTicks)

\* time passes; the clock runs on while a countdown is pending
Clock ==
  /\ \/ now < MaxNow
     \/ \E r \in RoomIds : cdRooms[r] # NoRoom /\ cdRooms[r].startAt > now
  /\ \E dt \in ClockSteps : now' = now + dt
  /\ UNCHANGED <<cdRooms, cdWs, serverVars>>

\* time passes in steps of half the overheat cooldown
HeatClock ==
  /\ now < HeatMaxNow
  /\ now' = now + OVERHEAT_COOLDOWN \div 2
  /\ UNCHANGED <<cdRooms, cdWs, serverVars>>

CdNext ==
  \/ \E c \in Conns, r \in RoomIds : CdCreate(c, r)
  \/ \E c \in Conns, r \in RoomIds : CdJoin(c, r)
  \/ \E c \in Conns : CdShoot(c)
  \/ CdTick
  \/ Clock

CdSpec == Init /\ [][CdNext]_vars

\* the same server, with room for a shot
CdDuelNext ==
  \/ \E c \in Conns, r \in RoomIds : CdCreate(c, r)
  \/ \E c \in Conns, r \in RoomIds : CdJoin(c, r)
  \/ \E c \in Conns : CdDuelShoot(c)
  \/ CdTick
  \/ Clock

CdDuelSpec == Init /\ [][CdDuelNext]_vars

\* the room table of server.js that holds the rooms of f
Table(f) == [r \in RoomKeys |-> IF r \in DOMAIN f THEN f[r] ELSE NoRoom]

\* the sessions of c1 (blue) and c2 (white) in the only room
Seated ==
  [c \in Conns |->
     IF c = "c1" THEN [room |-> CHOOSE r \in RoomIds : TRUE, player |-> "blue"]
     ELSE IF c = "c2" THEN [room |-> CHOOSE r \in RoomIds : TRUE, player |-> "white"]
     ELSE NoSession]

\* the server at the end of a countdown: c1 has created each room, c2 has
\* joined it at time 0, and COUNTDOWN ms have passed
HeatInit ==
  /\ rooms = [r \in RoomKeys |-> NoRoom]
  /\ ws = [c \in Conns |-> NoSession]
  /\ up = TRUE
  /\ cdRooms \in [RoomIds -> {[cdCreateRoom(mapKey, ab, aw) EXCEPT
                                  !.clients = [blue |-> "c1", white |-> "c2"],
                                  !.startAt = COUNTDOWN] :
                                mapKey \in MapKeys, ab \in AngleSet, aw \in AngleSet}]
  /\ cdWs = Seated
  /\ now = COUNTDOWN

\* the shoot messages, ticks and waits that follow
HeatNext ==
  \/ \E c \in Conns : HeatShoot(c)
  \/ HeatTick
  \/ HeatClock

HeatSpec == HeatInit /\ [][HeatNext]_vars

----------------------------------------------------------------------------
(* The hit test of the two loops, applied to projectiles drawn around the *)
(* bodies                                                                  *)

\* the offsets of a drawn projectile from a body (1/1000 px): within the
\* hit-box after one advance, or outside it
HitOffsets == {<<dx, dy>> : dx \in {-28000, -10000, 10000, 28000}, dy \in {0, 25000}}

\* the projectile b at the offset off from the body g
Placed(b, g, off) == [b EXCEPT !.x = g.x + off[1], !.y = g.y + off[2]]

\* server.js: a Match of c1 and c2, new or reset by a rematch, the bodies
\* facing each other, with one projectile of slot s near the body of slot t
HitRooms ==
  {[room EXCEPT !.clients = [blue |-> "c1", white |-> "c2"],
                !.bullets = <<Placed(Bullet(room.players[s]), room.players[t], off)>>] :
     room \in {createRoom(0, PI_MILLI), resetRoom(createRoom(0, PI_MILLI), 0, PI_MILLI)},
     s \in Slots, t \in Slots, off \in HitOffsets}

\* part_000: a started Match of c1 and c2 with one projectile of slot s near
\* the body of slot t
CdHitRooms ==
  {[room EXCEPT !.clients = [blue |-> "c1", white |-> "c2"],
                !.started = TRUE,
                !.startAt = COUNTDOWN,
                !.bullets = <<Placed(CdBullet(room.players[s], s), room.players[t], off)>>] :
     room \in {cdCreateRoom(mapKey, 0, PI_MILLI) : mapKey \in MapKeys},
     s \in Slots, t \in Slots, off \in HitOffsets}

HitInit ==
  /\ \E f \in [RoomIds -> HitRooms] : rooms = Table(f)
  /\ ws = Seated
  /\ up = TRUE
  /\ cdRooms \in [RoomIds -> CdHitRooms]
  /\ cdWs = Seated
  /\ now = COUNTDOWN

HitNext ==
  \/ HitTick
  \/ CdHitTick

HitSpec == HitInit /\ [][HitNext]_vars

----------------------------------------------------------------------------
(* Gun.update of server.js, applied to bodies drawn from a grid of          *)
(* positions, velocities and angular velocities                            *)

\* a body before the step: at a wall, in a corner or at the spawn point; at
\* rest or with the velocity of three recoils along an axis; not spinning or
\* spinning at MAX_ANGULAR_SPEED
UpdateBodies(g) ==
  {[g EXCEPT !.x = x, !.y = y, !.vx = vx, !.vy = vy, !.av = av] :
     x \in {RADIUS, SPAWN_X, WIDTH - RADIUS},
     y \in {RADIUS, HEIGHT - SPAWN_DY, HEIGHT - RADIUS},
     vx \in {-3 * RECOIL_FORCE, 0, 3 * RECOIL_FORCE},
     vy \in {-3 * RECOIL_FORCE, 0, 3 * RECOIL_FORCE},
     av \in {-MAX_ANGULAR_SPEED, 0, MAX_ANGULAR_SPEED}}

\* a Match of c1 and c2 with no projectile, the blue body drawn
UpdateRooms ==
  {[room EXCEPT !.clients = [blue |-> "c1", white |-> "c2"], !.players.blue = g] :
     room \in {createRoom(0, PI_MILLI)},
     g \in UpdateBodies(createRoom(0, PI_MILLI).players.blue)}

UpdateInit ==
  /\ \E f \in [RoomIds -> UpdateRooms] : rooms = Table(f)
  /\ ws = Seated
  /\ up = TRUE
  /\ cdRooms = [r \in RoomIds |-> NoRoom]
  /\ cdWs = [c \in Conns |-> NoSession]
  /\ now = 0

UpdateSpec == UpdateInit /\ [][UpdateTick]_vars

----------------------------------------------------------------------------
(* server.js with three connections, the room "undefined" and malformed    *)
(* messages, from the tick before a hit                                    *)

\* the room as it is one tick before the tick that ends the Match
RECURSIVE UntilHit(_)
UntilHit(room) ==
  IF TickRoom(room).gameOver THEN room ELSE UntilHit(TickRoom(room))

\* the Match of c1 and c2, facing each other, one tick before the shot that
\* blue fired at the start hits white; age and shots count from here
NearHit(jitter) ==
  LET joined == [createRoom(0, PI_MILLI) EXCEPT !.clients = [blue |-> "c1", white |-> "c2"]]
  IN  [UntilHit(shoot(joined, "blue", jitter)) EXCEPT !.age = 0, !.shots = 0]

LobbyInit ==
  /\ \E jitter \in JitterSet : rooms = Table([r \in RoomIds |-> NearHit(jitter)])
  /\ ws = Seated
  /\ up = TRUE
  /\ cdRooms = [r \in RoomIds |-> NoRoom]
  /\ cdWs = [c \in Conns |-> NoSession]
  /\ now = 0

LobbyNext ==
  \/ \E c \in Conns, r \in RoomKeys : Join(c, r)
  \/ \E c \in Conns : LobbyShoot(c)
  \/ \E c \in Conns : Rematch(c)
  \/ \E c \in Conns : Malformed(c)
  \/ LobbyTick

LobbySpec == LobbyInit /\ [][LobbyNext]_vars

Next ==
  \/ \E c \in Players, r \in RoomIds : Join(c, r)
  \/ \E c \in Players : Shoot(c)
  \/ \E c \in Players : Rematch(c)
  \/ Tick

Spec == Init /\ [][Next]_vars

\* the same server, with room for an exchange of shots
DuelNext ==
  \/ \E c \in Players, r \in RoomIds : Join(c, r)
  \/ \E c \in Players : DuelShoot(c)
  \/ \E c \in Players : Rematch(c)
  \/ Tick

SpecDuel == Init /\ [][DuelNext]_vars

\* the scheduler keeps firing the interval callback and time keeps passing;
\* no client is obliged to send anything
CdFairSpec == CdSpec /\ WF_vars(CdTick) /\ WF_vars(Clock)

----------------------------------------------------------------------------
(* Phases *)

Exists(r) == rooms[r] # NoRoom
CdExists(r) == cdRooms[r] # NoRoom

\* server.js: both slots filled and no hit scored yet
Active(room) == ClientCount(room) = 2 /\ ~room.gameOver

\* part_000: the connections bound to the Match of room r, by their session
\* mapping or by the Match's client table
BoundTo(r) ==
  {c \in Conns : \/ cdWs[c].room = r
                 \/ cdRooms[r].clients.blue = c
                 \/ cdRooms[r].clients.white = c}

\* part_000: a hit has stopped the Match: it ran, and is not running
HitEnded(room) == ~room.started /\ room.age > 0

----------------------------------------------------------------------------
(* Claims *)

\* C1: in part_000, no Match has more than two distinct connections bound to it
\* (by ws.room naming its room, or by its client table).
C1_AtMostTwoBound ==
  \A r \in RoomIds : CdExists(r) => Cardinality(BoundTo(r)) <= 2

\* C2: in server.js, a Match that is not Active (gameOver, or fewer than two
\* players joined) has an empty bullet list.
C2_NoProjectilesOutsideActive ==
  \A r \in RoomIds : Exists(r) /\ ~Active(rooms[r]) => rooms[r].bullets = <<>>

\* C3: in server.js, a shoot message changes the state (a projectile, recoil)
\* only if its sender is bound to a Match and that Match is Active.
C3_ShootOnlyWhenActive ==
  [][\A c \in Players :
       Shoot(c) /\ rooms' # rooms => ws[c].room # None /\ Active(rooms[ws[c].room])]_vars

\* the winner that first-hit-wins gives: the bullet loop of the tick, stopped
\* at the first projectile that ends the Match
RECURSIVE FirstHitLoop(_, _, _)
FirstHitLoop(room, i, n) ==
  IF i >= n \/ room.gameOver THEN room
  ELSE IF i >= Len(room.bullets) THEN FirstHitLoop(room, i + 1, n)
  ELSE FirstHitLoop(BulletStep(room, i), i + 1, n)

FirstHitWinner(room) ==
  LET moved == [room EXCEPT !.players.blue = update(room.players.blue),
                            !.players.white = update(room.players.white)]
  IN  FirstHitLoop(moved, 0, Len(moved.bullets)).winner

\* C4: in server.js, the tick that ends a Match sets the winner that the first
\* hitting projectile in bullet-list order determines, also when a later
\* projectile hits the other body in the same tick.
C4_FirstHitWins ==
  [][\A r \in RoomIds :
       Exists(r) /\ ~rooms[r].gameOver /\ rooms'[r].gameOver
         => rooms'[r].winner = FirstHitWinner(rooms[r])]_vars

\* a projectile of the winner's overlaps the other body's hit-box
WinnerHit(room) ==
  \E i \in 1..Len(room.bullets) :
    /\ room.bullets[i].owner = room.players[room.winner].id
    /\ hit(room.bullets[i], room.players[Other(room.winner)])

WinnerIffEnded ==
  \A r \in RoomIds : Exists(r) => (rooms[r].winner # None <=> rooms[r].gameOver)

\* C5: in server.js, the winner is set exactly when gameOver is true, and the
\* tick that ends the Match leaves as winner the owner slot of a projectile
\* that hit the other slot's body.
C5_WinnerIsHitter ==
  /\ WinnerIffEnded
  /\ [][/\ WinnerIffEnded'
        /\ \A r \in RoomIds :
             Exists(r) /\ ~rooms[r].gameOver /\ rooms'[r].gameOver
               => rooms'[r].winner \in Slots /\ WinnerHit(rooms'[r])]_vars

C5_Witness ==
  \E r \in RoomIds : Exists(r) /\ rooms[r].gameOver /\ rooms[r].winner = "blue"
                     /\ WinnerHit(rooms[r])

\* what a reset replaces: phase, winner, bodies, projectiles
Core(room) == <<room.gameOver, room.winner, room.players, room.bullets>>

NoFlagWhileRunning ==
  \A r \in RoomIds :
    Exists(r) /\ ~rooms[r].gameOver
      => ~rooms[r].rematchReady.blue /\ ~rooms[r].rematchReady.white

\* C6: in server.js, an Ended Match changes phase, winner, bodies or projectiles
\* only by the rematch message of one slot while the other slot's ready flag,
\* set since the Match ended, is up; rematch messages of a single slot change
\* none of them.
C6_ResetNeedsBoth ==
  /\ NoFlagWhileRunning
  /\ [][/\ NoFlagWhileRunning'
        /\ \A r \in RoomIds :
             Exists(r) /\ rooms[r].gameOver /\ Core(rooms'[r]) # Core(rooms[r])
               => \E c \in Players :
                    /\ ws[c].room = r
                    /\ Rematch(c)
                    /\ rooms[r].rematchReady[Other(ws[c].player)]]_vars

C6_Witness ==
  \E r \in RoomIds :
    /\ Exists(r) /\ rooms[r].gameOver
    /\ rooms[r].rematchReady.blue /\ ~rooms[r].rematchReady.white
    /\ rooms[r].bullets # <<>>

\* the Match a reset leaves: bodies at the spawn points at rest, no projectile,
\* no ready flag, no winner, Active
Fresh(room) ==
  /\ room.players.blue.x = SPAWN_X /\ room.players.blue.y = HEIGHT - SPAWN_DY
  /\ room.players.white.x = WIDTH - SPAWN_X /\ room.players.white.y = HEIGHT - SPAWN_DY
  /\ \A s \in Slots : room.players[s].vx = 0 /\ room.players[s].vy = 0
                      /\ room.players[s].av = 0
  /\ room.bullets = <<>>
  /\ ~room.rematchReady.blue /\ ~room.rematchReady.white
  /\ room.winner = None
  /\ Active(room)

\* C7: in server.js, a rematch message changes the state only while the Match
\* is Ended, and the step that ends the Ended phase leaves the Match fresh.
C7_RematchResets ==
  [][/\ \A c \in Players :
          Rematch(c) /\ rooms' # rooms
            => ws[c].room # None /\ rooms[ws[c].room].gameOver
     /\ \A r \in RoomIds :
          Exists(r) /\ rooms[r].gameOver /\ ~rooms'[r].gameOver => Fresh(rooms'[r])]_vars

C7_Witness ==
  \E r \in RoomIds : Exists(r) /\ rooms[r].gen = 1 /\ Fresh(rooms[r])

\* C8: in part_000, once a hit has stopped a Match, a tick leaves the Match as
\* it is: not started, bodies and projectiles where they were.
C8_StaysStopped ==
  [][\A r \in RoomIds :
       CdExists(r) /\ HitEnded(cdRooms[r]) /\ CdTick => cdRooms'[r] = cdRooms[r]]_vars

StartedAfterDeadline ==
  \A r \in RoomIds :
    CdExists(r) /\ cdRooms[r].started
      => /\ cdRooms[r].clients.blue # None
         /\ cdRooms[r].clients.white # None
         /\ cdRooms[r].startAt # 0
         /\ now >= cdRooms[r].startAt

\* the deadline of a Match is set by the join that fills its second slot, to
\* the time of that join + 3000 ms, and by nothing else
DeadlineFromJoin ==
  \A r \in RoomIds :
    CdExists(r)' /\ cdRooms'[r].startAt # 0
      /\ (~CdExists(r) \/ cdRooms[r].startAt # cdRooms'[r].startAt)
      => /\ CdExists(r) /\ cdRooms[r].clients.white = None
         /\ cdRooms'[r].clients.white # None
         /\ cdRooms'[r].startAt = now + 3000

\* C9: in part_000, a started Match has both slots filled and the clock at or
\* past its deadline, the time of the second join + 3000 ms.
C9_NoEarlyStart ==
  /\ StartedAfterDeadline
  /\ [][StartedAfterDeadline' /\ DeadlineFromJoin]_vars

C9_Witness ==
  /\ \E r \in RoomIds : CdExists(r) /\ cdRooms[r].started /\ now = cdRooms[r].startAt

\* C10: in part_000, a Match whose second player has joined is eventually
\* started, given that ticks keep firing and time keeps passing.
C10_EventuallyActive ==
  \A r \in RoomIds :
    (CdExists(r) /\ cdRooms[r].clients.white # None)
      ~> (CdExists(r) /\ cdRooms[r].started)

\* C11: in part_000, the heat of every body stays within 0 and MAX_HEAT,
\* whatever shoot messages and ticks have been handled.
C11_HeatInRange ==
  \A r \in RoomIds :
    CdExists(r) =>
      \A s \in Slots : /\ cdRooms[r].players[s].heat >= 0
                        /\ cdRooms[r].players[s].heat <= MAX_HEAT

\* the projectiles in the room that the body of slot s has fired
FiredBy(room, s) == {i \in 1..Len(room.bullets) : room.bullets[i].owner = s}

\* a body that has fired MAX_HEAT / HEAT_PER_SHOT times since the Match started,
\* with no tick in between, is overheated
BurstOverheats ==
  \A r \in RoomIds, s \in Slots :
    /\ CdExists(r) /\ cdRooms[r].age = 1
    /\ Cardinality(FiredBy(cdRooms[r], s)) * HEAT_PER_SHOT = MAX_HEAT
    => /\ cdRooms[r].players[s].overheated
       /\ cdRooms[r].players[s].heat = MAX_HEAT

\* the shot that overheats a body sets its deadline to the time of the shot +
\* OVERHEAT_COOLDOWN, and the deadline stands while the body is overheated
DeadlineFromShot ==
  \A r \in RoomIds, s \in Slots :
    CdExists(r) /\ cdRooms'[r].players[s].overheated
      => cdRooms'[r].players[s].overheatUntil =
           IF cdRooms[r].players[s].overheated
           THEN cdRooms[r].players[s].overheatUntil
           ELSE now + OVERHEAT_COOLDOWN

\* a shoot message for an overheated body: before the deadline canShoot is
\* false and nothing changes; at or after it canShoot is true, the flag is
\* cleared and the shot fires from a heat of 0.4 x MAX_HEAT
LockedUntilDeadline ==
  \A c \in Conns :
    LET room == CdRoomOf(c)
        s    == cdWs[c].player
        g    == room.players[s]
    IN  /\ room # NoRoom /\ room.started /\ g.overheated
        /\ HeatShoot(c)
        => LET after == cdRooms'[cdWs[c].room]
           IN  IF now < g.overheatUntil
               THEN ~canShoot(g, now) /\ after = room
               ELSE /\ canShoot(g, now)
                    /\ ~after.players[s].overheated
                    /\ 10 * (after.players[s].heat - HEAT_PER_SHOT) = 4 * MAX_HEAT
                    /\ Len(after.bullets) = Len(room.bullets) + 1

\* C12: in part_000, six shots from heat 0 with no tick in between overheat a
\* body; until the time of the overheating shot + OVERHEAT_COOLDOWN its shoot
\* messages create no projectile, and the first one at or after that time
\* clears the flag and fires from a heat of exactly 0.4 x MAX_HEAT.
C12_OverheatLock ==
  /\ BurstOverheats
  /\ [][BurstOverheats' /\ DeadlineFromShot /\ LockedUntilDeadline]_vars

C12_Witness ==
  \E r \in RoomIds, s \in Slots :
    /\ CdExists(r)
    /\ Cardinality(FiredBy(cdRooms[r], s)) * HEAT_PER_SHOT = MAX_HEAT + HEAT_PER_SHOT
    /\ ~cdRooms[r].players[s].overheated
    /\ cdRooms[r].players[s].overheatUntil # 0
    /\ now >= cdRooms[r].players[s].overheatUntil
    /\ 10 * (cdRooms[r].players[s].heat - HEAT_PER_SHOT) = 4 * MAX_HEAT

\* a projectile of the room overlaps the hit-box of the body of a slot other
\* than the slot that fired it
CrossHit(room) ==
  \E i \in 1..Len(room.bullets) :
    hit(room.bullets[i], room.players[Other(room.bullets[i].owner.slot)])

CdCrossHit(room) ==
  \E i \in 1..Len(room.bullets) :
    hit(room.bullets[i], room.players[Other(room.bullets[i].owner)])

\* a projectile of the room overlaps the hit-box of the body that fired it
OwnOverlap(room) ==
  \E i \in 1..Len(room.bullets) :
    hit(room.bullets[i], room.players[room.bullets[i].owner.slot])

CdOwnOverlap(room) ==
  \E i \in 1..Len(room.bullets) :
    hit(room.bullets[i], room.players[room.bullets[i].owner])

\* C13: in both servers, a tick ends a Match only if a projectile overlaps the
\* hit-box of the body of the other slot than the one that fired it; overlap
\* with the firing slot's own body ends nothing, also for the bodies that a
\* rematch reset has created.
C13_NoSelfHit ==
  [][/\ \A r \in RoomIds :
          Exists(r) /\ ~rooms[r].gameOver /\ rooms'[r].gameOver => CrossHit(rooms'[r])
     /\ \A r \in RoomIds :
          CdExists(r) /\ cdRooms[r].started /\ ~cdRooms'[r].started
            => CdCrossHit(cdRooms'[r])]_vars

C13_Witness ==
  /\ \E r \in RoomIds :
       /\ Exists(r) /\ rooms[r].gen = 1 /\ rooms[r].age = 1
       /\ OwnOverlap(rooms[r]) /\ ~rooms[r].gameOver
  /\ \E r \in RoomIds :
       /\ CdExists(r) /\ cdRooms[r].age = 1
       /\ CdOwnOverlap(cdRooms[r]) /\ cdRooms[r].started

\* the bodies that a tick has stepped keep within the linear speed limit
SpeedClamped ==
  \A r \in RoomIds, s \in Slots :
    Exists(r) /\ rooms[r].age > 0
      => Hypot(rooms[r].players[s].vx, rooms[r].players[s].vy) <= MAX_SPEED

\* the bodies that a tick has stepped keep within the angular speed limit
SpinClamped ==
  \A r \in RoomIds, s \in Slots :
    Exists(r) /\ rooms[r].age > 0
      => Abs(rooms[r].players[s].av) <= MAX_ANGULAR_SPEED

\* C14: in server.js, after every Gun.update the body's linear speed is at
\* most MAX_SPEED and its angular speed at most MAX_ANGULAR_SPEED, whatever
\* the velocities before the step and whether or not a wall was hit.
C14_ClampedAfterUpdate == SpeedClamped /\ SpinClamped

\* C15: in server.js, a message that does not parse is dropped: the process
\* and its tick scheduler keep running and no Match changes.
C15_MalformedDropped ==
  [][\A c \in Conns : Malformed(c) => up' /\ rooms' = rooms]_vars

\* both slots of the Match are filled
Full(room) == room # NoRoom /\ room.clients.blue # None /\ room.clients.white # None

\* the connection has not joined: ws.room and ws.player are not set
Unbound(c) == ws[c] = NoSession

Ended(room) == room # NoRoom /\ room.gameOver

\* the step leaves the room table, the Matches, the sessions and the process
\* as they are
Silent == rooms' = rooms /\ ws' = ws /\ up' = up

\* C16: in server.js, a join of a full Match, a shoot or rematch message of a
\* connection that has not joined, a shoot message while the Match is Ended
\* and a rematch message while it is not, change nothing and send no frame
\* (the shoot and rematch branches of the handler send none at all).
C16_InvalidIgnored ==
  [][\A c \in Conns :
       /\ \A r \in RoomKeys :
            Full(rooms[r]) /\ Join(c, r) => Silent /\ JoinReply(c, r) = {}
       /\ (Unbound(c) \/ Ended(RoomOf(c))) /\ LobbyShoot(c) => Silent
       /\ (Unbound(c) \/ ~Ended(RoomOf(c))) /\ Rematch(c) => Silent]_vars

\* C17: in server.js, a Match is changed by no join that names another
\* Match and by no shoot or rematch message of a connection whose ws.room
\* names another Match, and a tick steps it from its own state alone.
C17_Isolated ==
  [][\A q \in RoomKeys :
       rooms'[q] # rooms[q]
         => /\ \A c \in Conns, r \in RoomKeys \ {q} : ~Join(c, r)
            /\ \A c \in Conns : ws[c].room # q => ~LobbyShoot(c) /\ ~Rematch(c)
            /\ LobbyTick => rooms[q] # NoRoom /\ rooms'[q] = TickRoom(rooms[q])]_vars

\* two Matches side by side: one reset by a rematch after its hit, the other
\* running, with a projectile, and stepped by a tick
C17_Witness ==
  \E q1 \in RoomKeys, q2 \in RoomKeys :
    /\ q1 # q2 /\ Exists(q1) /\ Exists(q2)
    /\ rooms[q1].gen = 1
    /\ ~rooms[q2].gameOver /\ rooms[q2].bullets # <<>> /\ rooms[q2].age > 0

\* C18: in part_000, a create message that names a room id which already has
\* a Match leaves that Match as it is: bodies, projectiles, clients, phase and
\* countdown deadline.
C18_CreateKeepsMatch ==
  [][\A r \in RoomIds :
       CdExists(r) /\ (\E c \in Conns : CdCreate(c, r)) => cdRooms'[r] = cdRooms[r]]_vars

\* the projectile after `b.x += b.vx; b.y += b.vy`
Advance(b) == [b EXCEPT !.x = b.x + b.vx, !.y = b.y + b.vy]

InArena(b) == ~OutOfBounds(b, WIDTH, HEIGHT)

\* the projectiles of the room, each advanced once
Advanced(room) == [i \in 1..Len(room.bullets) |-> Advance(room.bullets[i])]

\* one of the projectiles overlaps the hit-box of a body that did not fire it
AnyHit(bullets, players) ==
  \E i \in 1..Len(bullets), s \in Slots :
    bullets[i].owner # players[s].id /\ hit(bullets[i], players[s])

\* C19: in server.js, a tick of an Active Match advances every projectile of
\* the Match exactly once, tests every one of them against the bodies that
\* did not fire it, and keeps those that are still in the arena, also when
\* other projectiles are pruned in the same tick.
C19_EveryProjectileStepped ==
  [][\A r \in RoomIds :
       /\ Exists(r) /\ Active(rooms[r])
       /\ rooms'[r].age # rooms[r].age
       => /\ rooms'[r].bullets = SelectSeq(Advanced(rooms[r]), InArena)
          /\ rooms'[r].gameOver = AnyHit(Advanced(rooms[r]), rooms'[r].players)]_vars

\* the slots of the client tables that hold the connection
Held(c) ==
  {h \in RoomKeys \X Slots : rooms[h[1]] # NoRoom /\ rooms[h[1]].clients[h[2]] = c}

\* C20: in server.js, every connection is held by at most one slot of at most
\* one Match's client table, and that Match and slot are the ones its session
\* mapping (ws.room, ws.player) names.
C20_OneSeat ==
  \A c \in Conns :
    /\ Cardinality(Held(c)) <= 1
    /\ \A h \in Held(c) : h = <<ws[c].room, ws[c].player>>

====
